---- MODULE Spec2Model ----
(***************************************************************************)
(* Model of the two data-access hooks of academlo-userscrud:               *)
(*   - useJsonApi  (mock store: static JSON seed + a modification log in   *)
(*                  localStorage)                                          *)
(*   - useUsersApi (live REST API)                                         *)
(* An application instance wires exactly one of the two hooks; the         *)
(* variable hook records which one.  The view state of App (search text,  *)
(* page, page size) with the table filter and the pager, and a second tab  *)
(* that shares the localStorage item, are modelled beside the hooks.       *)
(*                                                                         *)
(* Strings are sequences of one-character strings, so that trim(), the     *)
(* e-mail regular expression and length checks are computed.  A user       *)
(* record and a partial patch are functions from field names to values,    *)
(* so that object spread is computed field by field.                       *)
(*                                                                         *)
(* localStorage.setItem is modelled as succeeding (the quota is not        *)
(* exhausted) and the stored item is only ever written by this program.    *)
(***************************************************************************)
EXTENDS Integers, Sequences, FiniteSets, TLC

(* ------------------------------ bounds -------------------------------- *)
\* total number of operations a behaviour issues (the mount fetch included)
MaxOps == 3
\* number of operations that may be in flight at the same time
MaxInFlight == 2

(* ------------------------------ strings ------------------------------- *)
WhiteSpace == {" ", "\t"}

RECURSIVE TrimStart(_)
\* String.prototype.trim, leading part
TrimStart(s) ==
    IF s = <<>> THEN <<>>
    ELSE IF Head(s) \in WhiteSpace THEN TrimStart(Tail(s)) ELSE s

RECURSIVE TrimEnd(_)
\* String.prototype.trim, trailing part
TrimEnd(s) ==
    IF s = <<>> THEN <<>>
    ELSE IF s[Len(s)] \in WhiteSpace THEN TrimEnd(SubSeq(s, 1, Len(s) - 1)) ELSE s

\* String.prototype.trim
Trim(s) == TrimEnd(TrimStart(s))

\* the value of a property that is present but undefined
Undef == <<"undefined">>

\* JavaScript truthiness of a string-valued property
Truthy(s) == s # <<>> /\ s # Undef

\* /^[^\s@]+@[^\s@]+\.[^\s@]+$/.test(s)
EmailRegexTest(s) ==
    \E i \in 1..Len(s) :
        /\ s[i] = "@"
        /\ i > 1
        /\ \A k \in 1..Len(s) : k # i => s[k] \notin (WhiteSpace \cup {"@"})
        /\ \E j \in 1..Len(s) : j > i + 1 /\ j < Len(s) /\ s[j] = "."

\* the minimum password length of the live hook
MinPasswordLen == 8

(* ------------------------------ objects ------------------------------- *)
\* has(o, f): the object o has an own property f
Has(o, f) == f \in DOMAIN o

\* { ...a, ...b }
Spread(a, b) ==
    [f \in (DOMAIN a) \cup (DOMAIN b) |-> IF f \in DOMAIN b THEN b[f] ELSE a[f]]

\* { ...a, ...b, id }
SpreadWithId(a, b, id) == Spread(Spread(a, b), [id |-> id])

\* JSON.parse(JSON.stringify(o)) of a flat object: properties whose value is
\* undefined are dropped by JSON.stringify
\* (an id is a number and never undefined)
JsonObject(o) == [f \in {g \in DOMAIN o : g = "id" \/ o[g] # Undef} |-> o[f]]

\* JSON round trip of an array of flat objects
JsonArray(s) == [i \in 1..Len(s) |-> JsonObject(s[i])]

\* the ids of the records of a list
Ids(s) == {s[i]["id"] : i \in 1..Len(s)}

\* number of entries of a list with the given id
CountId(s, id) == Cardinality({i \in 1..Len(s) : s[i]["id"] = id})

\* Array.prototype.includes
Includes(s, x) == \E i \in 1..Len(s) : s[i] = x

\* the list without its i-th entry
RemoveAt(s, i) == SubSeq(s, 1, i - 1) \o SubSeq(s, i + 1, Len(s))

(* ------------------------------ inputs -------------------------------- *)
FirstNames == {<<"B", "o">>, <<" ">>}
LastNames == {<<"L", "e", "e">>, <<>>}
Emails == {<<"b", "@", "x", ".", "c">>, <<"b", "@", "x">>, <<" ", "\t">>}
Passwords ==
    {<<"1", "2", "3", "4", "5", "6", "7", "8">>,
     <<"1", "2", "3", "4", "5", "6", "7">>,
     <<>>}

\* the static JSON file public/api/users.json: the seed lists considered
Ana == [id |-> 1, firstName |-> <<"A", "n", "a">>, lastName |-> <<"R", "u", "i", "z">>,
        email |-> <<"a", "@", "x", ".", "c">>]
Cy == [id |-> 2, firstName |-> <<"C", "y">>, lastName |-> <<"P", "o">>,
       email |-> <<"c", "@", "x", ".", "c">>]
SeedLists == {<<>>, <<Ana>>, <<Ana, Cy>>}

\* ids the store hands out start above the ids of the seed
FirstFreshId == 11

\* ids a caller may pass to update and delete: seed ids, generated ids and
\* an id no record ever has
CallerIds == {1, FirstFreshId, 99}

\* number of fields of a CreateUser object that are blank or malformed
BadFields(u) ==
    Cardinality({f \in {"firstName", "lastName"} : Trim(u[f]) = <<>>})
    + (IF EmailRegexTest(u.email) THEN 0 ELSE 1)

\* ids a caller may pass to update and delete of the live hook: an id the
\* service holds at the start and an id no record ever has
ApiCallerIds == {1, 99}

\* CreateUser objects passed to the mock store's createUser: the valid one
\* and those with one bad field
JsonCreateInputs ==
    {u \in {[firstName |-> f, lastName |-> l, email |-> e] :
               f \in FirstNames, l \in LastNames, e \in Emails} : BadFields(u) <= 1}

\* e-mail values passed to the live hook
ApiEmails ==
    Emails \cup {<<"b", " ", "@", "x", ".", "c">>, <<"@", "x", ".", "c">>,
                 <<"b", "@", ".", "c">>, <<"b", "@", "x", ".">>,
                 <<"b", "@", "@", "x", ".", "c">>, <<"b", "@", "x", ".", ".", "c">>}

\* 1 when the password of a CreateUser object is missing, empty or too short
BadPassword(u) ==
    IF Has(u, "password") /\ Len(u.password) >= MinPasswordLen THEN 0 ELSE 1

\* CreateUser objects passed to the live hook's createUser, with a password
\* or (password is optional) without one: the valid one and those with one
\* bad field
ApiCreateInputs ==
    {u \in {[firstName |-> f, lastName |-> l, email |-> e, password |-> p] :
               f \in FirstNames, l \in LastNames, e \in ApiEmails, p \in Passwords}
           \cup {[firstName |-> f, lastName |-> l, email |-> e] :
               f \in FirstNames, l \in LastNames, e \in ApiEmails} :
        BadFields(u) + BadPassword(u) <= 1}

\* Partial<JsonUser> objects passed to updateUser of the mock store
JsonPatches ==
    {[lastName |-> <<"L", "e", "e", "2">>],
     [email |-> <<"n", "o">>],
     [id |-> 2, lastName |-> <<"X">>]}

\* Partial<CreateUser> objects passed to updateUser of the live hook
ApiPatches ==
    {[lastName |-> <<"L", "e", "e", "2">>],
     [email |-> <<"n", "o">>],
     [password |-> <<"1", "2", "3", "4", "5", "6", "7">>],
     [email |-> <<>>, password |-> <<>>]}

(* --------------------------- error messages --------------------------- *)
\* the value of the error slot: null, or a message with its interpolated argument
NoError == [msg |-> "null", arg |-> 0]
ErrMsg(m, a) == [msg |-> m, arg |-> a]

(* ------------------------- modification log --------------------------- *)
\* { created: [], updated: {}, deleted: [] }
EmptyModifications == [created |-> <<>>, updated |-> [i \in {} |-> <<>>], deleted |-> <<>>]

\* localStorage item STORAGE_KEY: <<>> when absent, else <<the parsed JSON blob>>
getStoredModifications(store) ==
    IF store # <<>> THEN store[1] ELSE EmptyModifications

\* localStorage.setItem(STORAGE_KEY, JSON.stringify(modifications))
saveModifications(m) ==
    << [created |-> JsonArray(m.created),
        updated |-> [i \in DOMAIN m.updated |-> JsonObject(m.updated[i])],
        deleted |-> m.deleted] >>

\* mutant of mergeUsersWithModifications: the created records come first
mergeUsersCreatedFirst(baseUsers, store) ==
    LET modifications == getStoredModifications(store)
        mapped == [i \in 1..Len(baseUsers) |->
                     IF baseUsers[i]["id"] \in DOMAIN modifications.updated
                     THEN Spread(baseUsers[i], modifications.updated[baseUsers[i]["id"]])
                     ELSE baseUsers[i]]
        mergedUsers == SelectSeq(mapped,
                         LAMBDA user : ~Includes(modifications.deleted, user["id"]))
    IN  modifications.created \o mergedUsers

\* mergeUsersWithModifications(baseUsers), reading the log from store
mergeUsersWithModifications(baseUsers, store) ==
    LET modifications == getStoredModifications(store)
        mapped == [i \in 1..Len(baseUsers) |->
                     IF baseUsers[i]["id"] \in DOMAIN modifications.updated
                     THEN Spread(baseUsers[i], modifications.updated[baseUsers[i]["id"]])
                     ELSE baseUsers[i]]
        mergedUsers == SelectSeq(mapped,
                         LAMBDA user : ~Includes(modifications.deleted, user["id"]))
    IN  mergedUsers \o modifications.created

\* mutant of LogCreate: the record is pushed twice
LogCreateTwice(m, newUser) == [m EXCEPT !.created = Append(Append(@, newUser), newUser)]

\* modifications.created.push(newUser)
LogCreate(m, newUser) == [m EXCEPT !.created = Append(@, newUser)]

\* mutant of LogUpdate: the new patch replaces the stored one
LogUpdateReplaces(m, id, userUpdate) ==
    [m EXCEPT !.updated =
        [i \in (DOMAIN m.updated) \cup {id} |->
            IF i = id THEN userUpdate ELSE m.updated[i]]]

\* modifications.updated[id] = { ...modifications.updated[id], ...userUpdate }
LogUpdate(m, id, userUpdate) ==
    LET old == IF id \in DOMAIN m.updated THEN m.updated[id] ELSE [f \in {} |-> <<>>]
    IN  [m EXCEPT !.updated =
            [i \in (DOMAIN m.updated) \cup {id} |->
                IF i = id THEN Spread(old, userUpdate) ELSE m.updated[i]]]

\* mutant of LogDelete: the patch stored for the id is kept
LogDeleteKeepsPatch(m, userId) ==
    LET created == SelectSeq(m.created, LAMBDA u : u["id"] # userId)
    IN  [created |-> created,
         updated |-> m.updated,
         deleted |-> Append(m.deleted, userId)]

\* mutant of LogDelete: the id is never pushed to deleted
LogDeleteNoTombstone(m, userId) ==
    [created |-> SelectSeq(m.created, LAMBDA u : u["id"] # userId),
     updated |-> [i \in (DOMAIN m.updated) \ {userId} |-> m.updated[i]],
     deleted |-> m.deleted]

\* deleteUser's changes to the log: filter created, push to deleted unless
\* the filtered created list still holds the id, delete updated[userId]
LogDelete(m, userId) ==
    LET created == SelectSeq(m.created, LAMBDA u : u["id"] # userId)
        deleted == IF ~(\E i \in 1..Len(created) : created[i]["id"] = userId)
                   THEN Append(m.deleted, userId) ELSE m.deleted
    IN  [created |-> created,
         updated |-> [i \in (DOMAIN m.updated) \ {userId} |-> m.updated[i]],
         deleted |-> deleted]

(* ------------------------------- state -------------------------------- *)
VARIABLES
    hook,      \* "json" (useJsonApi) or "api" (useUsersApi): the hook wired in
    users,     \* useState users: the in-memory list
    loading,   \* useState loading
    error,     \* useState error: the error slot
    seed,      \* content of the static file /api/users.json
    storage,   \* localStorage item STORAGE_KEY: <<>> or <<modifications>>
    server,    \* records held by the remote user service
    pending,   \* operations in flight, each with the closure it captured
    mounted,   \* the mount effect has run
    nextId,    \* next id generateUniqueId / the remote service hands out
    issued,    \* number of operations issued
    done,      \* number of operations completed
    last,      \* history: the operation completed last and what it returned
    tombs,     \* history: ids whose delete succeeded since the last reset
    raced,     \* history: some operation was issued while another was in flight
    filterText,    \* App: useState filterText, the search text
    currentPage,   \* App: useState currentPage
    itemsPerPage,  \* App: useState itemsPerPage
    otherTab,  \* a second tab on the same origin: its createUser call
    isDialogOpen,  \* App: useState isDialogOpen
    dialogMode,    \* App: useState dialogMode, "create" or "edit"
    selectedUser,  \* App: useState selectedUser, a record or null
    resumed,       \* UserDialog: hook calls whose awaiting onSubmit has gone on
    refreshCalls   \* history: the calls of onUserSaved, each a refreshUsers() of App

vars == <<hook, users, loading, error, seed, storage, server, pending,
          mounted, nextId, issued, done, last, tombs, raced,
          filterText, currentPage, itemsPerPage, otherTab,
          isDialogOpen, dialogMode, selectedUser, resumed, refreshCalls>>

\* the state of one hook instance, its store and its histories
hookVars == <<hook, users, loading, error, seed, storage, server, pending,
              mounted, nextId, issued, done, last, tombs, raced>>

\* the dialog state of App and the state of the onSubmit calls of UserDialog
dialogVars == <<isDialogOpen, dialogMode, selectedUser, resumed, refreshCalls>>

\* the state outside the hook instance: the view state of App and the other tab
beyond == <<filterText, currentPage, itemsPerPage, otherTab, dialogVars>>

\* no object
NoObject == [f \in {} |-> <<>>]

\* an operation in flight: its kind, where it is, its arguments, the users
\* value its callback closed over, the response it got, the number of HTTP
\* requests it has issued and how many of them are GETs of the whole list
Op(kind, phase, id, input, snap) ==
    [kind |-> kind, phase |-> phase, id |-> id, input |-> input, snap |-> snap,
     resp |-> "none", data |-> <<>>, reqs |-> 0, gets |-> 0]

\* history record of a completed operation
Done(op, ok, id, ret) ==
    [kind |-> op.kind, ok |-> ok, id |-> id, ret |-> ret, reqs |-> op.reqs,
     gets |-> op.gets]

\* an operation of useJsonApi that fetches the seed: one GET of /users.json
Fetch(kind) == [Op(kind, "delay", 0, NoObject, <<>>) EXCEPT !.reqs = 1, !.gets = 1]

\* App: useState(8), the page size a new view starts with
DefaultItemsPerPage == 8

\* the other tab before it calls anything: where its createUser call is,
\* the id it generated and the localStorage item it read
NoTab == [phase |-> "idle", id |-> 0, log |-> <<>>]

NoLast == [kind |-> "none", ok |-> TRUE, id |-> 0, ret |-> <<>>, reqs |-> 0, gets |-> 0]

Init ==
    /\ hook \in {"json", "api"}
    /\ users = <<>>
    /\ loading = FALSE
    /\ error = NoError
    /\ seed \in SeedLists
    /\ storage = <<>>
    /\ server \in IF hook = "api" THEN SeedLists ELSE {<<>>}
    /\ (hook = "api" => seed = <<>>)
    /\ pending = <<>>
    /\ mounted = FALSE
    /\ nextId = FirstFreshId
    /\ issued = 0
    /\ done = 0
    /\ last = NoLast
    /\ tombs = {}
    /\ raced = FALSE
    /\ filterText = <<>>
    /\ currentPage = 1
    /\ itemsPerPage = DefaultItemsPerPage
    /\ otherTab = NoTab
    /\ isDialogOpen = FALSE
    /\ dialogMode = "create"
    /\ selectedUser = NoObject
    /\ resumed = 0
    /\ refreshCalls = 0

\* a caller may issue one more operation
CanIssue == mounted /\ issued < MaxOps /\ Len(pending) < MaxInFlight

\* makeApiRequest up to its first await: setLoading(true); setError(null)
Begin(op) ==
    /\ loading' = TRUE
    /\ error' = NoError
    /\ pending' = Append(pending, op)
    /\ issued' = issued + 1
    /\ raced' = (raced \/ pending # <<>>)

\* makeApiRequest: requestFn returned; finally setLoading(false)
Succeed(i, id, ret) ==
    /\ loading' = FALSE
    /\ pending' = RemoveAt(pending, i)
    /\ done' = done + 1
    /\ last' = Done(pending[i], TRUE, id, ret)
    /\ UNCHANGED error

\* mutant of Fail: the loading flag is not cleared when requestFn threw
FailKeepsLoading(i, id, message) ==
    /\ error' = message
    /\ pending' = RemoveAt(pending, i)
    /\ done' = done + 1
    /\ last' = Done(pending[i], FALSE, id, <<>>)
    /\ UNCHANGED loading

\* makeApiRequest: requestFn threw; handleApiError sets the error slot,
\* finally setLoading(false)
Fail(i, id, message) ==
    /\ loading' = FALSE
    /\ error' = message
    /\ pending' = RemoveAt(pending, i)
    /\ done' = done + 1
    /\ last' = Done(pending[i], FALSE, id, <<>>)

(* --------------------------- useJsonApi ------------------------------- *)
\* outcomes of apiClient.get("/users.json")
JsonGetOutcomes == {"200", "204", "404", "network"}

\* handleApiError of useJsonApi for a failed GET
JsonFetchError(outcome) ==
    CASE outcome = "204" -> ErrMsg("HTTP ${status}: Failed to fetch users", 204)
      [] outcome = "404" -> ErrMsg("HTTP ${status}: ${statusText}", 404)
      [] OTHER -> ErrMsg("Network error - unable to reach server", 0)

\* useEffect(() => { getUsers() }, [getUsers]) of useJsonApi
JsonMount ==
    /\ hook = "json" /\ ~mounted
    /\ mounted' = TRUE
    /\ Begin(Fetch("list"))
    /\ UNCHANGED <<beyond, hook, users, seed, storage, server, nextId, done, last, tombs>>

\* getUsers() / refreshUsers() of useJsonApi is called
JsonGetUsersCall ==
    /\ hook = "json" /\ CanIssue
    /\ Begin(Fetch("list"))
    /\ UNCHANGED <<beyond, hook, users, seed, storage, server, mounted, nextId, done, last, tombs>>

\* mutant of JsonResetCall: the stored log is not removed
JsonResetCallKeepsLog ==
    /\ hook = "json" /\ CanIssue
    /\ tombs' = {}
    /\ Begin(Fetch("reset"))
    /\ UNCHANGED <<beyond, hook, users, seed, storage, server, mounted, nextId, done, last>>

\* resetToDefaults() is called: no delay, localStorage.removeItem runs at
\* once, then the nested getUsers() starts
JsonResetCall ==
    /\ hook = "json" /\ CanIssue
    /\ storage' = <<>>
    /\ tombs' = {}
    /\ Begin(Fetch("reset"))
    /\ UNCHANGED <<beyond, hook, users, seed, server, mounted, nextId, done, last>>

\* the delay of getUsers has elapsed and its GET settles (nothing is read
\* or written between the two); on 200 the merged list replaces users
JsonGetUsersRun(i, outcome) ==
    /\ hook = "json"
    /\ pending[i].kind \in {"list", "reset"} /\ pending[i].phase = "delay"
    /\ IF outcome = "200"
       THEN LET mergedUsers == mergeUsersWithModifications(seed, storage)
            IN  /\ users' = mergedUsers
                /\ Succeed(i, 0, mergedUsers)
       ELSE /\ Fail(i, 0, JsonFetchError(outcome))
            /\ UNCHANGED users
    /\ UNCHANGED <<beyond, hook, seed, storage, server, mounted, nextId, issued, tombs, raced>>

\* mutant of JsonCreateUserCall: the call also fetches the seed
JsonCreateUserCallFetches(user) ==
    /\ hook = "json" /\ CanIssue
    /\ Begin([Op("create", "delay", 0, user, users) EXCEPT !.reqs = 1, !.gets = 1])
    /\ UNCHANGED <<beyond, hook, users, seed, storage, server, mounted, nextId, done, last, tombs>>

\* createUser(user) of useJsonApi is called
JsonCreateUserCall(user) ==
    /\ hook = "json" /\ CanIssue
    /\ Begin(Op("create", "delay", 0, user, users))
    /\ UNCHANGED <<beyond, hook, users, seed, storage, server, mounted, nextId, done, last, tombs>>

\* mutant of JsonCreateUserRun: the record is appended to the current list
JsonCreateUserRunOnCurrent(i) ==
    LET op == pending[i]
        user == op.input
        newUser == Spread(user, [id |-> nextId])
    IN  /\ hook = "json"
        /\ op.kind = "create" /\ op.phase = "delay"
        /\ IF \/ Trim(user.firstName) = <<>>
              \/ Trim(user.lastName) = <<>>
              \/ Trim(user.email) = <<>>
           THEN /\ Fail(i, 0, ErrMsg("Name and email are required fields", 0))
                /\ UNCHANGED <<users, storage, nextId>>
           ELSE IF ~EmailRegexTest(user.email)
           THEN /\ Fail(i, 0, ErrMsg("Please provide a valid email address", 0))
                /\ UNCHANGED <<users, storage, nextId>>
           ELSE /\ nextId' = nextId + 1
                /\ storage' = saveModifications(
                                LogCreate(getStoredModifications(storage), newUser))
                /\ users' = Append(users, newUser)
                /\ Succeed(i, newUser["id"], <<newUser>>)
        /\ UNCHANGED <<beyond, hook, seed, server, mounted, issued, tombs, raced>>

\* the request function of createUser runs after the delay; generateUniqueId
\* yields an id no record has, and the id of a call that fails is never seen
JsonCreateUserRun(i) ==
    LET op == pending[i]
        user == op.input
        newUser == Spread(user, [id |-> nextId])
    IN  /\ hook = "json"
        /\ op.kind = "create" /\ op.phase = "delay"
        /\ IF \/ Trim(user.firstName) = <<>>
              \/ Trim(user.lastName) = <<>>
              \/ Trim(user.email) = <<>>
           THEN /\ Fail(i, 0, ErrMsg("Name and email are required fields", 0))
                /\ UNCHANGED <<users, storage, nextId>>
           ELSE IF ~EmailRegexTest(user.email)
           THEN /\ Fail(i, 0, ErrMsg("Please provide a valid email address", 0))
                /\ UNCHANGED <<users, storage, nextId>>
           ELSE /\ nextId' = nextId + 1
                /\ storage' = saveModifications(
                                LogCreate(getStoredModifications(storage), newUser))
                /\ users' = Append(op.snap, newUser)
                /\ Succeed(i, newUser["id"], <<newUser>>)
        /\ UNCHANGED <<beyond, hook, seed, server, mounted, issued, tombs, raced>>

\* updateUser(id, userUpdate) of useJsonApi is called
JsonUpdateUserCall(id, userUpdate) ==
    /\ hook = "json" /\ CanIssue
    /\ Begin(Op("update", "delay", id, userUpdate, users))
    /\ UNCHANGED <<beyond, hook, users, seed, storage, server, mounted, nextId, done, last, tombs>>

\* users.find((u) => u.id === id): index of the first match, 0 when none
FindIndex(list, id) ==
    IF id \in Ids(list)
    THEN CHOOSE i \in 1..Len(list) :
            list[i]["id"] = id /\ \A j \in 1..(i - 1) : list[j]["id"] # id
    ELSE 0

\* the request function of updateUser runs after the delay
JsonUpdateUserRun(i) ==
    LET op == pending[i]
        id == op.id
        userUpdate == op.input
        found == FindIndex(op.snap, id)
    IN  /\ hook = "json"
        /\ op.kind = "update" /\ op.phase = "delay"
        /\ IF found = 0
           THEN /\ Fail(i, id, ErrMsg("User with ID ${id} not found", id))
                /\ UNCHANGED <<users, storage>>
           ELSE IF Has(userUpdate, "email") /\ Truthy(userUpdate.email)
                   /\ ~EmailRegexTest(userUpdate.email)
           THEN /\ Fail(i, id, ErrMsg("Please provide a valid email address", 0))
                /\ UNCHANGED <<users, storage>>
           ELSE LET updatedUser == SpreadWithId(op.snap[found], userUpdate, id)
                IN  /\ storage' = saveModifications(
                                    LogUpdate(getStoredModifications(storage), id, userUpdate))
                    /\ users' = [k \in 1..Len(op.snap) |->
                                    IF op.snap[k]["id"] = id THEN updatedUser ELSE op.snap[k]]
                    /\ Succeed(i, id, <<updatedUser>>)
        /\ UNCHANGED <<beyond, hook, seed, server, mounted, nextId, issued, tombs, raced>>

\* mutant of userExists: the existence check always passes
userExistsAlways(list, userId) == TRUE

\* users.some((u) => u.id === userId)
userExists(list, userId) == userId \in Ids(list)

\* deleteUser(userId) of useJsonApi is called
JsonDeleteUserCall(userId) ==
    /\ hook = "json" /\ CanIssue
    /\ Begin(Op("delete", "delay", userId, NoObject, users))
    /\ UNCHANGED <<beyond, hook, users, seed, storage, server, mounted, nextId, done, last, tombs>>

\* the request function of deleteUser runs after the delay
JsonDeleteUserRun(i) ==
    LET op == pending[i]
        userId == op.id
    IN  /\ hook = "json"
        /\ op.kind = "delete" /\ op.phase = "delay"
        /\ IF ~userExists(op.snap, userId)
           THEN /\ Fail(i, userId, ErrMsg("User with ID ${id} not found", userId))
                /\ UNCHANGED <<users, storage, tombs>>
           ELSE /\ storage' = saveModifications(
                                LogDelete(getStoredModifications(storage), userId))
                /\ users' = SelectSeq(op.snap, LAMBDA u : u["id"] # userId)
                /\ tombs' = tombs \cup {userId}
                /\ Succeed(i, userId, <<>>)
        /\ UNCHANGED <<beyond, hook, seed, server, mounted, nextId, issued, raced>>

JsonNext ==
    \/ JsonMount
    \/ JsonGetUsersCall
    \/ JsonResetCall
    \/ \E i \in 1..Len(pending), outcome \in JsonGetOutcomes : JsonGetUsersRun(i, outcome)
    \/ \E user \in JsonCreateInputs : JsonCreateUserCall(user)
    \/ \E i \in 1..Len(pending) : JsonCreateUserRun(i)
    \/ \E id \in CallerIds, userUpdate \in JsonPatches : JsonUpdateUserCall(id, userUpdate)
    \/ \E i \in 1..Len(pending) : JsonUpdateUserRun(i)
    \/ \E userId \in CallerIds : JsonDeleteUserCall(userId)
    \/ \E i \in 1..Len(pending) : JsonDeleteUserRun(i)

(* --------------------------- useUsersApi ------------------------------ *)
\* how the remote service refuses a request: an envelope with success = false
\* (with or without a message), a non-2xx status (with or without a message
\* in the body; "http_netmsg": the message in the body is, character for
\* character, the text the hook uses when no response arrives)
ServerRefusals == {"fail_msg", "fail_nomsg", "http_msg", "http_nomsg", "http_netmsg"}

\* the fixed text handleApiError uses when a request got no response
NetworkText == "Network error - unable to reach server. Make sure the API is running."

\* the record the service returns: the password is never sent back
Public(rec) == [f \in (DOMAIN rec) \ {"password"} |-> rec[f]]

\* the generic message of an operation
FailedTo(kind) ==
    CASE kind = "list" -> "Failed to fetch users"
      [] kind = "create" -> "Failed to create user"
      [] kind = "update" -> "Failed to update user"
      [] OTHER -> "Failed to delete user"

\* mutant of handleApiError: an envelope without a message gets no default
handleApiErrorNoDefault(kind, resp) ==
    CASE resp = "fail_msg" -> ErrMsg("${message}", 0)
      [] resp = "fail_nomsg" -> ErrMsg("", 0)
      [] resp = "http_msg" -> ErrMsg("${message}", 0)
      [] resp = "http_netmsg" -> ErrMsg(NetworkText, 0)
      [] resp = "http_nomsg" -> ErrMsg("HTTP ${status}: ${statusText}", 500)
      [] OTHER -> ErrMsg(NetworkText, 0)

\* handleApiError of useUsersApi for the error a settled request raises;
\* "${message}" is the message the service put in its answer
handleApiError(kind, resp) ==
    CASE resp = "fail_msg" -> ErrMsg("${message}", 0)
      [] resp = "fail_nomsg" -> ErrMsg(FailedTo(kind), 0)
      [] resp = "http_msg" -> ErrMsg("${message}", 0)
      [] resp = "http_netmsg" -> ErrMsg(NetworkText, 0)
      [] resp = "http_nomsg" -> ErrMsg("HTTP ${status}: ${statusText}", 500)
      [] OTHER -> ErrMsg(NetworkText, 0)

\* an operation of useUsersApi that has issued its HTTP request: GET /users
\* for getUsers, POST, PUT or DELETE for the others
Sent(kind, id, input) ==
    [Op(kind, "sent", id, input, <<>>) EXCEPT
        !.reqs = 1, !.gets = IF kind = "list" THEN 1 ELSE 0]

\* makeApiRequest whose request function throws before its first await:
\* loading is set and cleared, the error slot is set, within one task
FailAtOnce(kind, id, message) ==
    /\ raced' = (raced \/ pending # <<>>)
    /\ loading' = FALSE
    /\ error' = message
    /\ issued' = issued + 1
    /\ done' = done + 1
    /\ last' = [kind |-> kind, ok |-> FALSE, id |-> id, ret |-> <<>>, reqs |-> 0,
                gets |-> 0]
    /\ UNCHANGED pending

\* useEffect(() => { getUsers() }, [getUsers]) of useUsersApi
ApiMount ==
    /\ hook = "api" /\ ~mounted
    /\ mounted' = TRUE
    /\ Begin(Sent("list", 0, NoObject))
    /\ UNCHANGED <<beyond, hook, users, seed, storage, server, nextId, done, last, tombs>>

\* getUsers() / refreshUsers() of useUsersApi is called
ApiGetUsersCall ==
    /\ hook = "api" /\ CanIssue
    /\ Begin(Sent("list", 0, NoObject))
    /\ UNCHANGED <<beyond, hook, users, seed, storage, server, mounted, nextId, done, last, tombs>>

\* mutant of ApiCreateUserCall: the password is not checked
ApiCreateUserCallNoPassword(user) ==
    /\ hook = "api" /\ CanIssue
    /\ IF \/ Trim(user.firstName) = <<>>
          \/ Trim(user.lastName) = <<>>
          \/ Trim(user.email) = <<>>
       THEN FailAtOnce("create", 0,
                ErrMsg("First name, last name and email are required fields", 0))
       ELSE IF ~EmailRegexTest(user.email)
       THEN FailAtOnce("create", 0, ErrMsg("Please provide a valid email address", 0))
       ELSE Begin(Sent("create", 0, user)) /\ UNCHANGED <<done, last>>
    /\ UNCHANGED <<beyond, hook, users, seed, storage, server, mounted, nextId, tombs>>

\* createUser(user) of useUsersApi is called: client-side validation, then POST
ApiCreateUserCall(user) ==
    /\ hook = "api" /\ CanIssue
    /\ IF \/ Trim(user.firstName) = <<>>
          \/ Trim(user.lastName) = <<>>
          \/ Trim(user.email) = <<>>
       THEN FailAtOnce("create", 0,
                ErrMsg("First name, last name and email are required fields", 0))
       ELSE IF ~EmailRegexTest(user.email)
       THEN FailAtOnce("create", 0, ErrMsg("Please provide a valid email address", 0))
       ELSE IF \/ ~Has(user, "password") \/ ~Truthy(user.password)
               \/ Len(user.password) < MinPasswordLen
       THEN FailAtOnce("create", 0,
                ErrMsg("Password must be at least 8 characters long", 0))
       ELSE Begin(Sent("create", 0, user)) /\ UNCHANGED <<done, last>>
    /\ UNCHANGED <<beyond, hook, users, seed, storage, server, mounted, nextId, tombs>>

\* updateUser(id, userUpdate) of useUsersApi is called: validation of the
\* fields present, then PUT
ApiUpdateUserCall(id, userUpdate) ==
    /\ hook = "api" /\ CanIssue
    /\ IF Has(userUpdate, "email") /\ Truthy(userUpdate.email)
          /\ ~EmailRegexTest(userUpdate.email)
       THEN FailAtOnce("update", id, ErrMsg("Please provide a valid email address", 0))
       ELSE IF Has(userUpdate, "password") /\ Truthy(userUpdate.password)
               /\ Len(userUpdate.password) < MinPasswordLen
       THEN FailAtOnce("update", id,
                ErrMsg("Password must be at least 8 characters long", 0))
       ELSE Begin(Sent("update", id, userUpdate)) /\ UNCHANGED <<done, last>>
    /\ UNCHANGED <<beyond, hook, users, seed, storage, server, mounted, nextId, tombs>>

\* deleteUser(userId) of useUsersApi is called: DELETE
ApiDeleteUserCall(userId) ==
    /\ hook = "api" /\ CanIssue
    /\ Begin(Sent("delete", userId, NoObject))
    /\ UNCHANGED <<beyond, hook, users, seed, storage, server, mounted, nextId, done, last, tombs>>

\* the remote service carries out a request and answers with a success
\* envelope; update and delete are carried out for ids the service holds
ServerHandle(i) ==
    LET op == pending[i]
        created == Spread(Public(op.input), [id |-> nextId])
        updated == [k \in 1..Len(server) |->
                      IF server[k]["id"] = op.id
                      THEN SpreadWithId(server[k], Public(op.input), op.id)
                      ELSE server[k]]
    IN  /\ hook = "api"
        /\ op.phase = "sent"
        /\ (op.kind \in {"update", "delete"} => op.id \in Ids(server))
        /\ CASE op.kind = "list" ->
                  /\ pending' = [pending EXCEPT ![i].phase = "answered",
                                    ![i].resp = "ok", ![i].data = server]
                  /\ UNCHANGED <<server, nextId>>
             [] op.kind = "create" ->
                  /\ server' = Append(server, created)
                  /\ nextId' = nextId + 1
                  /\ pending' = [pending EXCEPT ![i].phase = "answered",
                                    ![i].resp = "ok", ![i].data = <<created>>]
             [] op.kind = "update" ->
                  /\ server' = updated
                  /\ pending' = [pending EXCEPT ![i].phase = "answered",
                                    ![i].resp = "ok",
                                    ![i].data = <<updated[FindIndex(server, op.id)]>>]
                  /\ UNCHANGED nextId
             [] OTHER ->
                  /\ server' = SelectSeq(server, LAMBDA u : u["id"] # op.id)
                  /\ pending' = [pending EXCEPT ![i].phase = "answered",
                                    ![i].resp = "ok"]
                  /\ UNCHANGED nextId
        /\ UNCHANGED <<beyond, hook, users, loading, error, seed, storage, mounted, issued,
                       done, last, tombs, raced>>

\* mutant of ApiRefused: a refused delete has removed the record optimistically
ApiRefusedOptimistic(i, outcome) ==
    /\ hook = "api"
    /\ pending[i].phase = "sent"
    /\ Fail(i, pending[i].id, handleApiError(pending[i].kind, outcome))
    /\ users' = SelectSeq(users, LAMBDA u : u["id"] # pending[i].id)
    /\ UNCHANGED <<beyond, hook, seed, storage, server, mounted, nextId, issued, tombs, raced>>

\* the remote service refuses a request (envelope with success = false, or
\* a non-2xx status) and the refusal arrives: the request function throws,
\* or axios raises an error that has a response
ApiRefused(i, outcome) ==
    /\ hook = "api"
    /\ pending[i].phase = "sent"
    /\ Fail(i, pending[i].id, handleApiError(pending[i].kind, outcome))
    /\ UNCHANGED <<beyond, hook, users, seed, storage, server, mounted, nextId, issued, tombs, raced>>

\* mutant of ApiNetworkError: the lost request is reported as an HTTP status
ApiNetworkErrorAsStatus(i) ==
    /\ hook = "api"
    /\ pending[i].phase \in {"sent", "answered"}
    /\ Fail(i, pending[i].id, handleApiError(pending[i].kind, "http_nomsg"))
    /\ UNCHANGED <<beyond, hook, users, seed, storage, server, mounted, nextId, issued, tombs, raced>>

\* the request or its response is lost, or the request times out: axios
\* raises an error that has a request and no response
ApiNetworkError(i) ==
    /\ hook = "api"
    /\ pending[i].phase \in {"sent", "answered"}
    /\ Fail(i, pending[i].id, handleApiError(pending[i].kind, "network"))
    /\ UNCHANGED <<beyond, hook, users, seed, storage, server, mounted, nextId, issued, tombs, raced>>

\* mutant of ApiResponse: after a mutation the list is replaced by the
\* records the service holds
ApiResponseReplacesList(i) ==
    LET op == pending[i]
    IN  /\ hook = "api"
        /\ op.phase = "answered"
        /\ Succeed(i, IF op.kind = "create" THEN op.data[1]["id"] ELSE op.id, op.data)
        /\ users' = IF op.kind = "list" THEN op.data ELSE server
        /\ UNCHANGED <<beyond, hook, seed, storage, server, mounted, nextId, issued, tombs, raced>>

\* the success envelope of a request arrives and the request function resumes
ApiResponse(i) ==
    LET op == pending[i]
    IN  /\ hook = "api"
        /\ op.phase = "answered"
        /\ Succeed(i, IF op.kind = "create" THEN op.data[1]["id"] ELSE op.id, op.data)
        /\ users' =
             CASE op.kind = "list" -> op.data
               [] op.kind = "create" -> Append(users, op.data[1])
               [] op.kind = "update" ->
                    [k \in 1..Len(users) |->
                        IF users[k]["id"] = op.id THEN op.data[1] ELSE users[k]]
               [] OTHER -> SelectSeq(users, LAMBDA u : u["id"] # op.id)
        /\ UNCHANGED <<beyond, hook, seed, storage, server, mounted, nextId, issued, tombs, raced>>

ApiNext ==
    \/ ApiMount
    \/ ApiGetUsersCall
    \/ \E user \in ApiCreateInputs : ApiCreateUserCall(user)
    \/ \E id \in ApiCallerIds, userUpdate \in ApiPatches : ApiUpdateUserCall(id, userUpdate)
    \/ \E userId \in ApiCallerIds : ApiDeleteUserCall(userId)
    \/ \E i \in 1..Len(pending) : ServerHandle(i)
    \/ \E i \in 1..Len(pending), outcome \in ServerRefusals : ApiRefused(i, outcome)
    \/ \E i \in 1..Len(pending) : ApiNetworkError(i)
    \/ \E i \in 1..Len(pending) : ApiResponse(i)

(* ------------------------------ the view ------------------------------ *)
\* String.prototype.toLowerCase, letter by letter
LowerOf ==
    [A |-> "a", B |-> "b", C |-> "c", D |-> "d", E |-> "e", F |-> "f", G |-> "g",
     H |-> "h", I |-> "i", J |-> "j", K |-> "k", L |-> "l", M |-> "m", N |-> "n",
     O |-> "o", P |-> "p", Q |-> "q", R |-> "r", S |-> "s", T |-> "t", U |-> "u",
     V |-> "v", W |-> "w", X |-> "x", Y |-> "y", Z |-> "z"]

\* String.prototype.toLowerCase
toLowerCase(s) ==
    [k \in 1..Len(s) |-> IF s[k] \in DOMAIN LowerOf THEN LowerOf[s[k]] ELSE s[k]]

\* String.prototype.includes: t occurs in s at some offset
StringIncludes(s, t) ==
    \E k \in 0..(Len(s) - Len(t)) : SubSeq(s, k + 1, k + Len(t)) = t

\* mutant of UserMatches: the search text is not lower-cased
UserMatchesCaseSensitive(user, searchText) ==
    LET fullName == toLowerCase(user.firstName \o <<" ">> \o user.lastName)
    IN  \/ StringIncludes(fullName, searchText)
        \/ StringIncludes(toLowerCase(user.email), searchText)

\* the predicate UsersTable passes to data.filter
UserMatches(user, searchText) ==
    LET fullName == toLowerCase(user.firstName \o <<" ">> \o user.lastName)
    IN  \/ StringIncludes(fullName, toLowerCase(searchText))
        \/ StringIncludes(toLowerCase(user.email), toLowerCase(searchText))

\* data.filter(...) of UsersTable
filterUsers(data, searchText) ==
    SelectSeq(data, LAMBDA user : UserMatches(user, searchText))

\* mutant of Slice: the element at index end is included
SliceInclusive(s, start, end) ==
    SubSeq(s, start + 1, IF end + 1 < Len(s) THEN end + 1 ELSE Len(s))

\* Array.prototype.slice(start, end) for 0 <= start <= end
Slice(s, start, end) == SubSeq(s, start + 1, IF end < Len(s) THEN end ELSE Len(s))

\* what UsersTable renders: a text, or the cards of one page of the matches
UsersTable(searchText, isLoading, err, data, perPage, page) ==
    IF isLoading THEN [shows |-> "Loading...", cards |-> <<>>]
    ELSE IF err # NoError THEN [shows |-> "Error: ${error}", cards |-> <<>>]
    ELSE IF Len(data) = 0 THEN [shows |-> "No users found.", cards |-> <<>>]
    ELSE [shows |-> "cards",
          cards |-> Slice(filterUsers(data, searchText), (page - 1) * perPage, page * perPage)]

\* Math.ceil(a / b) for a >= 0 and b > 0
Ceil(a, b) == (a + b - 1) \div b

\* the options of the page-size select of TablePager
PageSizes == {5, 8, 10}

\* the texts typed into the search bar
SearchTexts == {<<>>, <<"A", "N">>, <<"a", "r">>}

\* the outcomes of the GET of the seed file and the ids passed to deleteUser
\* while the view is exercised
ViewGetOutcomes == {"200", "404"}
ViewDeleteIds == {1, 99}

\* seed files for the view: n records, the first Ana, then Cy and Bo in turn
Bo == [id |-> 3, firstName |-> <<"B", "o">>, lastName |-> <<"L", "e", "e">>,
       email |-> <<"b", "@", "x", ".", "c">>]
ViewUser(k) ==
    IF k = 1 THEN Ana ELSE IF k % 2 = 0 THEN [Cy EXCEPT !["id"] = k] ELSE [Bo EXCEPT !["id"] = k]
ViewSeedSizes == {0, 10}
ViewSeedLists == {[k \in 1..n |-> ViewUser(k)] : n \in ViewSeedSizes}

\* SearchBar onChange: setFilterText(text)
ViewSetFilterText(text) ==
    /\ mounted
    /\ filterText' = text
    /\ UNCHANGED <<hookVars, dialogVars, currentPage, itemsPerPage, otherTab>>

\* TablePager select onChange: setItemsPerPage(Number(value))
ViewSetItemsPerPage(n) ==
    /\ mounted
    /\ itemsPerPage' = n
    /\ UNCHANGED <<hookVars, dialogVars, filterText, currentPage, otherTab>>

\* the pages the four pager buttons ask for: first, previous, next, last;
\* totalItems is users.length
PagerRequests ==
    {1, currentPage - 1, currentPage + 1, Ceil(Len(users), itemsPerPage)}

\* handleChangePage(newPage) of TablePager with onPageChange = setCurrentPage
handleChangePage(newPage) ==
    /\ mounted
    /\ IF newPage < 1 \/ newPage > Ceil(Len(users), itemsPerPage)
       THEN UNCHANGED currentPage
       ELSE currentPage' = newPage
    /\ UNCHANGED <<hookVars, dialogVars, filterText, itemsPerPage, otherTab>>

\* what App shows in its table
Rendered == UsersTable(filterText, loading, error, users, itemsPerPage, currentPage)

\* App over useJsonApi: the list is fetched on mount, refreshed and pruned by
\* deletes, while the operator types, pages and changes the page size
ViewNext ==
    \/ JsonMount
    \/ JsonGetUsersCall
    \/ \E i \in 1..Len(pending), outcome \in ViewGetOutcomes : JsonGetUsersRun(i, outcome)
    \/ \E userId \in ViewDeleteIds : JsonDeleteUserCall(userId)
    \/ \E i \in 1..Len(pending) : JsonDeleteUserRun(i)
    \/ \E text \in SearchTexts : ViewSetFilterText(text)
    \/ \E n \in PageSizes : ViewSetItemsPerPage(n)
    \/ \E newPage \in PagerRequests : handleChangePage(newPage)

(* --------------------------- a second tab ----------------------------- *)
\* A second tab of the same origin runs its own useJsonApi instance over the
\* same localStorage item.  Within one tab the statements between two awaits
\* run as one task; across tabs localStorage gives no such atomicity, so the
\* accesses of this tab may fall between the other tab's getItem and setItem.

\* the CreateUser object the other tab passes to createUser
OtherTabUser == [firstName |-> <<"B", "o">>, lastName |-> <<"L", "e", "e">>,
                 email |-> <<"b", "@", "x", ".", "c">>]

\* createUser(OtherTabUser) is called in the other tab
OtherTabCreateUserCall ==
    /\ hook = "json" /\ mounted /\ otherTab.phase = "idle"
    /\ otherTab' = [otherTab EXCEPT !.phase = "delay"]
    /\ UNCHANGED <<hookVars, dialogVars, filterText, currentPage, itemsPerPage>>

\* the other tab's request function runs after the delay: generateUniqueId,
\* validation (the input is valid), getStoredModifications()
OtherTabReads ==
    /\ otherTab.phase = "delay"
    /\ otherTab' = [phase |-> "read", id |-> nextId, log |-> storage]
    /\ nextId' = nextId + 1
    /\ UNCHANGED <<hook, users, loading, error, seed, storage, server, pending, mounted,
                   issued, done, last, tombs, raced, filterText, currentPage, itemsPerPage,
                   dialogVars>>

\* mutant of OtherTabWrites: the item is read again when it is written
OtherTabWritesFresh ==
    /\ otherTab.phase = "read"
    /\ storage' = saveModifications(
                    LogCreate(getStoredModifications(storage),
                              Spread(OtherTabUser, [id |-> otherTab.id])))
    /\ otherTab' = [otherTab EXCEPT !.phase = "done"]
    /\ UNCHANGED <<hook, users, loading, error, seed, server, pending, mounted, nextId,
                   issued, done, last, tombs, raced, filterText, currentPage, itemsPerPage,
                   dialogVars>>

\* the other tab: modifications.created.push(newUser); saveModifications(modifications)
OtherTabWrites ==
    /\ otherTab.phase = "read"
    /\ storage' = saveModifications(
                    LogCreate(getStoredModifications(otherTab.log),
                              Spread(OtherTabUser, [id |-> otherTab.id])))
    /\ otherTab' = [otherTab EXCEPT !.phase = "done"]
    /\ UNCHANGED <<hook, users, loading, error, seed, server, pending, mounted, nextId,
                   issued, done, last, tombs, raced, filterText, currentPage, itemsPerPage,
                   dialogVars>>

\* this tab creates and deletes records while the other tab creates one
TabsNext ==
    \/ JsonMount
    \/ \E i \in 1..Len(pending), outcome \in JsonGetOutcomes : JsonGetUsersRun(i, outcome)
    \/ \E user \in JsonCreateInputs : JsonCreateUserCall(user)
    \/ \E i \in 1..Len(pending) : JsonCreateUserRun(i)
    \/ \E userId \in CallerIds : JsonDeleteUserCall(userId)
    \/ \E i \in 1..Len(pending) : JsonDeleteUserRun(i)
    \/ OtherTabCreateUserCall
    \/ OtherTabReads
    \/ OtherTabWrites

(* ----------------------------- the dialog ---------------------------- *)
\* UserDialog is rendered by App and calls useUsersApi itself: in this part
\* the hook state is that of the dialog's own instance, and the list App
\* shows is seen only through the refreshUsers() calls of onUserSaved.

\* the records UsersTable can hand to onEditUser
EditTargets == {Ana, Cy}

\* TablePager onAddUser: setDialogMode("create"); setIsDialogOpen(true)
DialogAddUser ==
    /\ mounted
    /\ dialogMode' = "create"
    /\ isDialogOpen' = TRUE
    /\ UNCHANGED <<hookVars, filterText, currentPage, itemsPerPage, otherTab,
                   selectedUser, resumed, refreshCalls>>

\* UsersTable onEditUser(user): setDialogMode("edit"); setIsDialogOpen(true);
\* setSelectedUser(user)
DialogEditUser(user) ==
    /\ mounted
    /\ dialogMode' = "edit"
    /\ isDialogOpen' = TRUE
    /\ selectedUser' = user
    /\ UNCHANGED <<hookVars, filterText, currentPage, itemsPerPage, otherTab,
                   resumed, refreshCalls>>

\* the Cancel button, a click outside the dialog or its close event: onClose()
DialogClose ==
    /\ isDialogOpen
    /\ isDialogOpen' = FALSE
    /\ UNCHANGED <<hookVars, filterText, currentPage, itemsPerPage, otherTab,
                   dialogMode, selectedUser, resumed, refreshCalls>>

\* the user prop of UserDialog: dialogMode === "edit" ? selectedUser : null
DialogUser == IF dialogMode = "edit" THEN selectedUser ELSE NoObject

\* what the operator may have typed into the form when submitting it
DialogInputs ==
    {[firstName |-> f, lastName |-> <<"L", "e", "e">>, email |-> e, password |-> p] :
        f \in FirstNames, e \in {<<"b", "@", "x", ".", "c">>, <<"b", "@", "x">>},
        p \in Passwords}

\* the rules the form registers its fields with: handleSubmit calls onSubmit
\* only when they hold; rules other than required skip an empty field
FormValid(data) ==
    /\ data.firstName # <<>> /\ data.lastName # <<>>
    /\ data.email # <<>> /\ EmailRegexTest(data.email)
    /\ (dialogMode = "create" => data.password # <<>>)
    /\ (data.password # <<>> => Len(data.password) >= MinPasswordLen)

\* handleSubmit(onSubmit) up to the await of onSubmit; the form is rendered
\* while the dialog is open and its submit button is disabled while the hook
\* is loading
DialogSubmit(data) ==
    /\ isDialogOpen /\ ~loading
    /\ FormValid(data)
    /\ IF dialogMode = "edit" /\ DialogUser # NoObject
       THEN ApiUpdateUserCall(DialogUser["id"], data)
       ELSE ApiCreateUserCall(data)

\* a hook call awaited by onSubmit has settled and onSubmit has not gone on
Resumable == resumed # done /\ last.kind \in {"create", "update"}

\* mutant of DialogResume: the catch block closes the dialog as well
DialogResumeClosesAnyway ==
    /\ Resumable
    /\ resumed' = done
    /\ IF last.ok
       THEN /\ refreshCalls' = refreshCalls + 1
            /\ isDialogOpen' = FALSE
       ELSE /\ isDialogOpen' = FALSE
            /\ UNCHANGED refreshCalls
    /\ UNCHANGED <<hookVars, filterText, currentPage, itemsPerPage, otherTab,
                   dialogMode, selectedUser>>

\* onSubmit after its await: reset(); onUserSaved(); onClose() when the call
\* returned, the catch block when it threw
DialogResume ==
    /\ Resumable
    /\ resumed' = done
    /\ IF last.ok
       THEN /\ refreshCalls' = refreshCalls + 1
            /\ isDialogOpen' = FALSE
       ELSE UNCHANGED <<refreshCalls, isDialogOpen>>
    /\ UNCHANGED <<hookVars, filterText, currentPage, itemsPerPage, otherTab,
                   dialogMode, selectedUser>>

\* what the operator and the network may do while no onSubmit can go on
DialogIdleNext ==
    \/ ApiMount
    \/ DialogAddUser
    \/ \E user \in EditTargets : DialogEditUser(user)
    \/ DialogClose
    \/ \E data \in DialogInputs : DialogSubmit(data)
    \/ \E i \in 1..Len(pending) : ServerHandle(i)
    \/ \E i \in 1..Len(pending), outcome \in ServerRefusals : ApiRefused(i, outcome)
    \/ \E i \in 1..Len(pending) : ApiNetworkError(i)
    \/ \E i \in 1..Len(pending) : ApiResponse(i)

\* the rest of onSubmit runs in the microtasks of the task that settled its
\* call, before any other event is handled
DialogNext ==
    \/ ~Resumable /\ DialogIdleNext
    \/ DialogResume

Next == JsonNext \/ ApiNext

\* an application that wires in either hook
Spec == Init /\ [][Next]_vars

\* the outcomes and inputs the hooks are driven with where their progress
\* is concerned: a GET that succeeds and one that fails, a refusal with a
\* message, a valid and an invalid record, an id held and an id not held
LiveGetOutcomes == {"200", "404"}
LiveRefusals == {"fail_msg"}
LiveUser == [firstName |-> <<"B", "o">>, lastName |-> <<"L", "e", "e">>,
             email |-> <<"b", "@", "x", ".", "c">>,
             password |-> <<"1", "2", "3", "4", "5", "6", "7", "8">>]
LiveCreateInputs == {LiveUser, [LiveUser EXCEPT !.email = <<"b", "@", "x">>]}
LivePatch == [lastName |-> <<"L", "e", "e", "2">>]

\* the hook's functions are called
LiveCalls ==
    \/ JsonMount
    \/ JsonGetUsersCall
    \/ JsonResetCall
    \/ \E user \in LiveCreateInputs : JsonCreateUserCall(user)
    \/ \E id \in ApiCallerIds : JsonUpdateUserCall(id, LivePatch)
    \/ \E userId \in ApiCallerIds : JsonDeleteUserCall(userId)
    \/ ApiMount
    \/ ApiGetUsersCall
    \/ \E user \in LiveCreateInputs : ApiCreateUserCall(user)
    \/ \E id \in ApiCallerIds : ApiUpdateUserCall(id, LivePatch)
    \/ \E userId \in ApiCallerIds : ApiDeleteUserCall(userId)

\* a timer of simulateApiDelay fires and the storage calls return, the remote
\* service answers, or an HTTP call returns, fails or runs into its timeout
Settles ==
    \/ \E i \in 1..Len(pending), outcome \in LiveGetOutcomes : JsonGetUsersRun(i, outcome)
    \/ \E i \in 1..Len(pending) : JsonCreateUserRun(i)
    \/ \E i \in 1..Len(pending) : JsonUpdateUserRun(i)
    \/ \E i \in 1..Len(pending) : JsonDeleteUserRun(i)
    \/ \E i \in 1..Len(pending) : ServerHandle(i)
    \/ \E i \in 1..Len(pending), outcome \in LiveRefusals : ApiRefused(i, outcome)
    \/ \E i \in 1..Len(pending) : ApiNetworkError(i)
    \/ \E i \in 1..Len(pending) : ApiResponse(i)

LiveNext == LiveCalls \/ Settles

\* either hook, where timers fire and HTTP calls settle: both axios
\* instances are created with a timeout
SpecLive == Init /\ [][LiveNext]_vars /\ WF_vars(Settles)

\* an application that wires in useJsonApi
InitJson == Init /\ hook = "json"
SpecJson == InitJson /\ [][JsonNext]_vars

\* an application that wires in useUsersApi
InitApi == Init /\ hook = "api"
SpecApi == InitApi /\ [][ApiNext]_vars

\* two tabs that wire in useJsonApi over one localStorage item
SpecTabs == InitJson /\ [][TabsNext]_vars

\* the App component with its view state, over seed files of several pages
InitView ==
    /\ hook = "json"
    /\ seed \in ViewSeedLists
    /\ users = <<>> /\ loading = FALSE /\ error = NoError
    /\ storage = <<>> /\ server = <<>> /\ pending = <<>>
    /\ mounted = FALSE /\ nextId = FirstFreshId
    /\ issued = 0 /\ done = 0 /\ last = NoLast /\ tombs = {} /\ raced = FALSE
    /\ filterText = <<>> /\ currentPage = 1 /\ itemsPerPage = DefaultItemsPerPage
    /\ otherTab = NoTab
    /\ isDialogOpen = FALSE /\ dialogMode = "create" /\ selectedUser = NoObject
    /\ resumed = 0 /\ refreshCalls = 0
SpecView == InitView /\ [][ViewNext]_vars

\* App with its UserDialog, whose form calls useUsersApi
SpecDialog == InitApi /\ [][DialogNext]_vars

(* ============================== claims ================================ *)
\* an operation completes in this step
Completes == done' = done + 1

\* the operation pending[i] completes in this step
CompletesAt(i) == Completes /\ i \in 1..Len(pending) /\ pending' = RemoveAt(pending, i)

\* what list() would return in the current state of the mock store
JsonListNow == mergeUsersWithModifications(seed, storage)

\* the log the mock store currently has
LogNow == getStoredModifications(storage)

(* ---- C1 ---- *)
RECURSIVE SeedUnderLog(_, _)
\* the seed records in seed order, each with its patch applied, minus those
\* whose id is deleted
SeedUnderLog(s, log) ==
    IF s = <<>> THEN <<>>
    ELSE LET r == Head(s)
             p == IF r["id"] \in DOMAIN log.updated THEN log.updated[r["id"]] ELSE NoObject
             patched == [f \in (DOMAIN r) \cup (DOMAIN p) |->
                            IF f \in DOMAIN p THEN p[f] ELSE r[f]]
         IN  (IF \E k \in 1..Len(log.deleted) : log.deleted[k] = patched["id"]
              THEN <<>> ELSE <<patched>>) \o SeedUnderLog(Tail(s), log)

\* the list C1 describes, for a seed list and the stored log
ExpectedList(s, store) ==
    LET log == IF store = <<>>
               THEN [created |-> <<>>, updated |-> NoObject, deleted |-> <<>>]
               ELSE store[1]
    IN  SeedUnderLog(s, log) \o log.created

\* C1: whenever list() of the mock store succeeds (also the one nested in
\* resetToDefaults), the list it returns and the in-memory list are the seed
\* records in seed order, each with its patch from 'updated' applied, minus
\* the records whose id is in 'deleted', followed by the 'created' records.
C1_ListIsSeedUnderLog ==
    [][(Completes /\ hook = "json" /\ last'.kind \in {"list", "reset"} /\ last'.ok)
        => /\ users' = ExpectedList(seed', storage')
           /\ last'.ret = users']_vars

\* a list() succeeded over a log that holds a patch, a deletion or a creation
C1_Witness ==
    /\ hook = "json" /\ last.kind = "list" /\ last.ok
    /\ storage # <<>> /\ users # seed /\ users # <<>> /\ last.ret = users

(* ---- C2 ---- *)
\* what the next list() returns: the merge for the mock store, the records
\* the service holds for the live hook
NextListNow == IF hook = "json" THEN JsonListNow ELSE server

\* C2: when a create that no other operation overlapped succeeds, the
\* returned record has an id, and that id occurs exactly once in the
\* in-memory list and exactly once in what the next list() returns.
C2_CreatedAppearsOnce ==
    [][(Completes /\ last'.kind = "create" /\ last'.ok /\ ~raced')
        => /\ Len(last'.ret) = 1
           /\ Has(last'.ret[1], "id") /\ last'.ret[1]["id"] = last'.id /\ last'.id > 0
           /\ CountId(users', last'.id) = 1
           /\ users'[Len(users')] = last'.ret[1]
           /\ CountId(NextListNow', last'.id) = 1]_vars

\* a create succeeded on a non-empty list, with no overlap so far
C2_Witness ==
    /\ last.kind = "create" /\ last.ok /\ ~raced
    /\ Len(users) > 1 /\ CountId(users, last.id) = 1 /\ CountId(NextListNow, last.id) = 1

(* ---- C3 ---- *)
\* the entry of list with the given id (the first one)
Entry(list, id) == list[FindIndex(list, id)]

\* C3 (as claimed): when update(id, patch) of the mock store succeeds, with
\* a patch of ordinary fields and no overlapping operation, list() then shows
\* a record with that id whose patched fields have the patch's values and whose
\* other fields are as before, and every other record is as it was.
C3_UpdateShownByList ==
    [][\A i \in 1..Len(pending) :
        (CompletesAt(i) /\ hook = "json" /\ pending[i].kind = "update" /\ last'.ok
            /\ ~raced /\ "id" \notin DOMAIN pending[i].input
            /\ pending[i].id \in Ids(JsonListNow))
        => LET id == pending[i].id
               patch == pending[i].input
               before == JsonListNow
               after == JsonListNow'
           IN  /\ Len(after) = Len(before)
               /\ \A k \in 1..Len(after) :
                    IF before[k]["id"] = id
                    THEN /\ after[k]["id"] = id
                         /\ \A f \in DOMAIN patch : after[k][f] = patch[f]
                         /\ \A f \in (DOMAIN before[k]) \ (DOMAIN patch) :
                               after[k][f] = before[k][f]
                    ELSE after[k] = before[k]]_vars

(* ---- C4 ---- *)
\* C4: an id whose delete succeeded is absent from the in-memory list right
\* after the delete, absent from what list() returns in every later state,
\* and, as long as no operations overlapped, absent from the in-memory list
\* in every later state: until resetToDefaults() is called.
C4_DeletedStaysAbsent ==
    [][/\ \A id \in tombs' : id \notin Ids(JsonListNow')
       /\ (Completes /\ hook = "json" /\ last'.kind = "delete" /\ last'.ok)
             => last'.id \notin Ids(users')
       /\ ~raced' => \A id \in tombs' : id \notin Ids(users')]_vars

\* the delete of a seed record succeeded and a list() completed after it
C4_Witness ==
    /\ hook = "json" /\ tombs # {} /\ last.kind = "list" /\ last.ok
    /\ \E id \in tombs : id \in Ids(seed)

(* ---- C5 ---- *)
\* C5: an update or delete of the mock store whose id is not in the
\* in-memory list it was called on fails, sets the error slot to the
\* not-found message for that id, and changes neither the in-memory list nor
\* the stored log.
C5_UnknownIdFails ==
    [][\A i \in 1..Len(pending) :
        (CompletesAt(i) /\ hook = "json" /\ pending[i].kind \in {"update", "delete"}
            /\ pending[i].id \notin Ids(pending[i].snap))
        => /\ ~last'.ok
           /\ error' = [msg |-> "User with ID ${id} not found", arg |-> pending[i].id]
           /\ users' = users
           /\ storage' = storage]_vars

\* an update or delete failed with not-found while the list and the log were
\* not empty
C5_Witness ==
    /\ hook = "json" /\ last.kind \in {"update", "delete"} /\ ~last.ok
    /\ error.msg = "User with ID ${id} not found" /\ error.arg = last.id
    /\ users # <<>> /\ storage # <<>>

(* ---- C6 ---- *)
\* C6: when resetToDefaults() completes and no operations overlapped, the
\* stored log is empty and list() returns the seed; when it succeeded the
\* in-memory list is the seed.
C6_ResetRestoresSeed ==
    [][(Completes /\ hook = "json" /\ last'.kind = "reset" /\ ~raced')
        => /\ LogNow' = [created |-> <<>>, updated |-> NoObject, deleted |-> <<>>]
           /\ JsonListNow' = seed'
           /\ last'.ok => users' = seed']_vars

\* a reset succeeded after a create had succeeded
C6_Witness ==
    /\ hook = "json" /\ last.kind = "reset" /\ last.ok /\ ~raced
    /\ nextId > FirstFreshId /\ users = seed /\ seed # <<>> /\ storage = <<>>

(* ---- C7 ---- *)
\* C7 (as claimed): a successful delete of a record that is in the 'created'
\* bucket removes it from 'created' and leaves the 'deleted' bucket as it was.
C7_CreatedDeleteLeavesNoTombstone ==
    [][(Completes /\ hook = "json" /\ last'.kind = "delete" /\ last'.ok
            /\ last'.id \in Ids(LogNow.created))
        => /\ last'.id \notin Ids(LogNow'.created)
           /\ LogNow'.deleted = LogNow.deleted]_vars

(* ---- C8 ---- *)
\* C8 (as claimed): when an update of the mock store succeeds (no overlapping
\* operation), every record keeps its id, in the in-memory list and in what
\* list() returns afterwards.
C8_UpdateKeepsIds ==
    [][(Completes /\ hook = "json" /\ last'.kind = "update" /\ last'.ok /\ ~raced')
        => /\ Len(users') = Len(users)
           /\ \A k \in 1..Len(users) : users'[k]["id"] = users[k]["id"]
           /\ Len(JsonListNow') = Len(JsonListNow)
           /\ \A k \in 1..Len(JsonListNow) : JsonListNow'[k]["id"] = JsonListNow[k]["id"]]_vars

(* ---- C9 ---- *)
\* C9: when a create, update or delete of either hook fails, the in-memory
\* list is left as it was.
C9_FailureKeepsList ==
    [][(Completes /\ last'.kind \in {"create", "update", "delete"} /\ ~last'.ok)
        => users' = users]_vars

\* a mutation failed while the in-memory list was not empty
C9_Witness ==
    /\ last.kind \in {"create", "update", "delete"} /\ ~last.ok
    /\ error # NoError /\ users # <<>>

(* ---- C10 ---- *)
\* the string has only white space (or nothing)
Blank(s) == \A k \in 1..Len(s) : s[k] \in {" ", "\t"}

\* local@domain.tld with non-empty parts free of white space and of @
WellFormedEmail(s) ==
    \E a \in 1..Len(s), d \in 1..Len(s) :
        /\ a >= 2 /\ d >= a + 2 /\ d <= Len(s) - 1
        /\ s[a] = "@" /\ s[d] = "."
        /\ \A k \in (1..Len(s)) \ {a} : s[k] # "@" /\ s[k] # " " /\ s[k] # "\t"

\* the input C10 says createUser of the live hook rejects
RejectedInput(u) ==
    \/ Blank(u.firstName) \/ Blank(u.lastName) \/ Blank(u.email)
    \/ ~WellFormedEmail(u.email)
    \/ "password" \notin DOMAIN u
    \/ Len(u.password) < 8

\* the inputs of the live hook's createUser that C10 does not reject
AcceptableInputs == {u \in ApiCreateInputs : ~RejectedInput(u)}

\* C10: a createUser call of the live hook that fails at once has issued no
\* HTTP request and is never one with an acceptable input; a createUser call
\* that sends a request never has a rejected input; every operation in flight
\* has issued exactly one request, and so has every operation that completes
\* after being sent.
C10_ValidationBeforeRequest ==
    [][/\ (hook = "api" /\ issued' = issued + 1 /\ Completes /\ last'.kind = "create")
            => /\ ~last'.ok /\ last'.reqs = 0 /\ error' # NoError
               /\ pending' = pending /\ server' = server
               /\ \A u \in AcceptableInputs : ~ApiCreateUserCall(u)
       /\ (hook = "api" /\ issued' = issued + 1 /\ ~Completes)
            => LET op == pending'[Len(pending')]
               IN  op.reqs = 1 /\ (op.kind = "create" => ~RejectedInput(op.input))
       /\ hook = "api" => \A i \in 1..Len(pending') : pending'[i].reqs = 1
       /\ \A i \in 1..Len(pending) :
            (CompletesAt(i) /\ hook = "api") => last'.reqs = 1]_vars

\* a create was rejected by validation with nothing sent, while another
\* operation that was sent is in flight
C10_Witness ==
    /\ hook = "api" /\ last.kind = "create" /\ ~last.ok /\ last.reqs = 0
    /\ pending # <<>> /\ pending[1].reqs = 1

(* ---- C11 ---- *)
\* the generic failure string of each operation of the live hook
GenericFailure ==
    [list |-> "Failed to fetch users", create |-> "Failed to create user",
     update |-> "Failed to update user", delete |-> "Failed to delete user"]

\* the refusals whose answer carries a message, and that message
CarriesMessage == {"fail_msg", "http_msg", "http_netmsg"}
MessageOf(o) == IF o = "http_netmsg" THEN NetworkText ELSE "${message}"

\* C11: whenever the service refuses a request of the live hook (list,
\* create, update or delete), the operation fails, the in-memory list is left
\* as it was, and the error slot holds the server's message when there is one;
\* without a message it holds the operation's generic failure string for an
\* envelope with success = false, and the HTTP status string for a non-2xx
\* answer.
C11_RefusalSetsMessage ==
    [][\A i \in 1..Len(pending), o \in ServerRefusals :
        (hook = "api" /\ ApiRefused(i, o))
        => /\ CompletesAt(i) /\ ~last'.ok /\ last'.kind = pending[i].kind
           /\ users' = users
           /\ server' = server
           /\ error' =
                IF o \in CarriesMessage THEN [msg |-> MessageOf(o), arg |-> 0]
                ELSE IF o = "fail_nomsg"
                THEN [msg |-> GenericFailure[pending[i].kind], arg |-> 0]
                ELSE [msg |-> "HTTP ${status}: ${statusText}", arg |-> 500]]_vars

\* an update was refused by an envelope without a message while the list
\* was not empty
C11_Witness ==
    /\ hook = "api" /\ last.kind = "update" /\ ~last.ok /\ last.reqs = 1
    /\ error = [msg |-> "Failed to update user", arg |-> 0]
    /\ users # <<>>

(* ---- C12 ---- *)
\* the error slot after a request that got no response
NoResponseError == [msg |-> NetworkText, arg |-> 0]

\* C12 (as claimed): a request of the live hook that gets no response sets
\* the error slot to the fixed network message; a request that is refused
\* with a response sets it to the server's message, or to the HTTP status
\* string when the body has no message, and never to the value the lost
\* request gives.
C12_NetworkNeverLikeServer ==
    [][\A i \in 1..Len(pending) :
        /\ (hook = "api" /\ ApiNetworkError(i)) => error' = NoResponseError
        /\ \A o \in ServerRefusals :
              (hook = "api" /\ ApiRefused(i, o))
              => /\ error' = IF o \in CarriesMessage
                             THEN [msg |-> MessageOf(o), arg |-> 0]
                             ELSE [msg |-> "HTTP ${status}: ${statusText}", arg |-> 500]
                 /\ error' # NoResponseError]_vars

\* C12 (amended): a request of the live hook that gets no response sets the
\* error slot to the fixed network message; a request that is refused with a
\* response sets it to the server's message, or, when the answer has no
\* message, to the HTTP status string for a non-2xx answer and to the
\* operation's generic failure string for a 2xx envelope with success =
\* false; the two values differ unless the server's message is itself the
\* text of the network message.
C12_NetworkUnlikeOtherMessages ==
    [][\A i \in 1..Len(pending) :
        /\ (hook = "api" /\ ApiNetworkError(i))
              => error' = NoResponseError /\ ~last'.ok /\ users' = users
        /\ \A o \in ServerRefusals :
              (hook = "api" /\ ApiRefused(i, o))
              => /\ error' = IF o \in CarriesMessage
                             THEN [msg |-> MessageOf(o), arg |-> 0]
                             ELSE IF o = "http_nomsg"
                             THEN [msg |-> "HTTP ${status}: ${statusText}", arg |-> 500]
                             ELSE [msg |-> GenericFailure[pending[i].kind], arg |-> 0]
                 /\ (~(o \in CarriesMessage /\ MessageOf(o) = NetworkText))
                       => error' # NoResponseError]_vars

\* a delete got no response after the service had carried it out: the error
\* slot has the network message and the list still shows the record
C12_Witness ==
    /\ hook = "api" /\ last.kind = "delete" /\ ~last.ok
    /\ error = NoResponseError
    /\ last.id \in Ids(users) /\ last.id \notin Ids(server)

(* ---- C13 ---- *)
\* s begins with t
StartsWith(s, t) == Len(t) <= Len(s) /\ \A k \in 1..Len(t) : s[k] = t[k]

RECURSIVE IsSubstring(_, _)
\* t is a substring of s
IsSubstring(s, t) == StartsWith(s, t) \/ (s # <<>> /\ IsSubstring(Tail(s), t))

\* the match C13 describes: lower-cased t is a substring of the lower-cased
\* full name (first name, a space, last name) or of the lower-cased e-mail
ClaimedMatch(r, t) ==
    \/ IsSubstring(toLowerCase(r.firstName) \o <<" ">> \o toLowerCase(r.lastName),
                   toLowerCase(t))
    \/ IsSubstring(toLowerCase(r.email), toLowerCase(t))

\* the k-th smallest member of a set of positions
Nth(idx, k) == CHOOSE i \in idx : Cardinality({j \in idx : j <= i}) = k

\* search texts the filter is probed with: those typed, one that spans the
\* space of the full name, one that matches e-mails only, one in mixed case
ProbeTexts ==
    SearchTexts \cup {<<"a", " ", "r">>, <<"@", "X">>, <<"O">>, <<"C", "y", " ", "P">>}

\* C13: for the record list the view holds and every search text t, the
\* filtered list consists of exactly the records that match t (lower-cased t
\* is a substring of the lower-cased full name or e-mail), in the order of
\* the record list; for the empty search text it is the record list itself.
C13_FilterKeepsExactlyMatches ==
    \A t \in ProbeTexts :
        LET F == filterUsers(users, t)
            idx == {i \in 1..Len(users) : ClaimedMatch(users[i], t)}
        IN  /\ (t = <<>> => F = users)
            /\ Len(F) = Cardinality(idx)
            /\ \A k \in 1..Len(F) : F[k] = users[Nth(idx, k)]

\* the table shows cards and an upper-case search text keeps some records
\* and drops others
C13_Witness ==
    /\ Rendered.shows = "cards" /\ filterText = <<"A", "N">>
    /\ Len(filterUsers(users, filterText)) = 1 /\ Len(users) > 1
    /\ Rendered.cards = <<users[1]>>

(* ---- C14 ---- *)
\* the number of records that match the current search text
Matches == Len(filterUsers(users, filterText))

\* C14 (as claimed): a pager action changes the current page only to a page
\* within [1, ceil(matches / itemsPerPage)], so the page it sets has a
\* matching record in its window.
C14_PagerStaysWithinMatches ==
    [][currentPage' # currentPage
        => /\ currentPage' \in 1..Ceil(Matches, itemsPerPage)
           /\ Slice(filterUsers(users, filterText),
                    (currentPage' - 1) * itemsPerPage, currentPage' * itemsPerPage) # <<>>]_vars

(* ---- C15 ---- *)
\* C15 (as claimed): for both hooks, the loading flag is true as long as some
\* operation that has started has not completed.
C15_LoadingWhileInFlight == pending # <<>> => loading

(* ---- C16 ---- *)
\* C16: when a create, update or delete of the live hook succeeds, the
\* in-memory list changes only as follows: create appends the record the
\* server returned, update puts the record the server returned in the place
\* of the entries with that id, delete drops the entries with that id; all
\* other entries keep their value and order; the operation has issued one
\* request, none of them a GET of the list, and starts no other operation.
C16_MutationTouchesOneEntry ==
    [][\A i \in 1..Len(pending) :
        (hook = "api" /\ CompletesAt(i) /\ last'.ok /\ pending[i].kind # "list")
        => LET op == pending[i]
               kept == {k \in 1..Len(users) : users[k]["id"] # op.id}
           IN  /\ op.kind = "create"
                     => /\ Len(op.data) = 1 /\ last'.ret = op.data
                        /\ Len(users') = Len(users) + 1
                        /\ users'[Len(users')] = op.data[1]
                        /\ \A k \in 1..Len(users) : users'[k] = users[k]
               /\ op.kind = "update"
                     => /\ Len(op.data) = 1 /\ last'.ret = op.data
                        /\ Len(users') = Len(users)
                        /\ \A k \in 1..Len(users) :
                              users'[k] = IF users[k]["id"] = op.id THEN op.data[1]
                                          ELSE users[k]
               /\ op.kind = "delete"
                     => /\ Len(users') = Cardinality(kept)
                        /\ \A k \in 1..Len(users') : users'[k] = users[Nth(kept, k)]
               /\ last'.reqs = 1 /\ last'.gets = 0
               /\ issued' = issued]_vars

\* an update of the first of two records succeeded: the first entry is the
\* record the server returned and the second is as it was
C16_Witness ==
    /\ hook = "api" /\ last.kind = "update" /\ last.ok /\ last.gets = 0
    /\ Len(users) = 2 /\ users[1] = last.ret[1] /\ users[1] # Ana /\ users[2] = Cy

(* ---- C17 ---- *)
\* C17: the first step of a hook instance is the mount, taken without any
\* caller action, and it happens once; the mount and every call of
\* getUsers / refresh (and of resetToDefaults, which nests getUsers) start
\* one operation that issues exactly one GET of the whole list; a create,
\* update or delete issues none, when it is called, while it runs and when
\* it completes.
C17_FetchOnMountAndRefresh ==
    [][/\ ~mounted
            => /\ mounted' /\ issued = 0 /\ issued' = 1
               /\ Len(pending') = 1 /\ pending'[1].kind = "list" /\ pending'[1].gets = 1
       /\ mounted => mounted'
       /\ (issued' = issued + 1 /\ ~Completes)
            => LET op == pending'[Len(pending')]
               IN  /\ Len(pending') = Len(pending) + 1
                   /\ op.gets = IF op.kind \in {"list", "reset"} THEN 1 ELSE 0
       /\ (issued' = issued + 1 /\ Completes)
            => last'.kind \in {"create", "update"} /\ last'.gets = 0 /\ pending' = pending
       /\ issued' = issued
            => /\ Len(pending') <= Len(pending)
               /\ \A i \in 1..Len(pending) :
                     /\ CompletesAt(i) => last'.gets = pending[i].gets
                     /\ Len(pending') = Len(pending) => pending'[i].gets = pending[i].gets]_vars

\* the mount fetch and one refresh have completed and a create is in flight:
\* two GETs of the list were issued, none by the create
C17_Witness ==
    /\ mounted /\ issued = 3 /\ done = 2 /\ last.kind = "list" /\ last.gets = 1
    /\ Len(pending) = 1 /\ pending[1].kind = "create" /\ pending[1].gets = 0
    /\ ~raced

(* ---- C18 ---- *)
\* C18: whenever a create, update or delete of the mock store succeeds, the
\* in-memory list it writes is computed from the list the call saw when it
\* was issued, whatever other operations wrote in between: that list plus
\* the new record, that list with the entries of the id replaced by the
\* updated record, that list without the entries of the id.  After
\* overlapping mutations the in-memory list is therefore the one written by
\* the operation that completed last.
C18_LastWriteWins ==
    [][\A i \in 1..Len(pending) :
        (hook = "json" /\ CompletesAt(i) /\ last'.ok
            /\ pending[i].kind \in {"create", "update", "delete"})
        => LET op == pending[i]
               seen == op.snap
               kept == {k \in 1..Len(seen) : seen[k]["id"] # op.id}
           IN  /\ op.kind = "create"
                     => /\ Len(last'.ret) = 1 /\ Len(users') = Len(seen) + 1
                        /\ users'[Len(users')] = last'.ret[1]
                        /\ \A k \in 1..Len(seen) : users'[k] = seen[k]
               /\ op.kind = "update"
                     => /\ Len(last'.ret) = 1 /\ Len(users') = Len(seen)
                        /\ \A k \in 1..Len(seen) :
                              users'[k] = IF seen[k]["id"] = op.id THEN last'.ret[1]
                                          ELSE seen[k]
               /\ op.kind = "delete"
                     => /\ Len(users') = Cardinality(kept)
                        /\ \A k \in 1..Len(users') : users'[k] = seen[Nth(kept, k)]]_vars

\* two creates were issued back-to-back and both succeeded: the stored log
\* holds both records, the in-memory list only the one created last
C18_Witness ==
    /\ hook = "json" /\ raced /\ pending = <<>> /\ issued = 3 /\ done = 3
    /\ last.kind = "create" /\ last.ok /\ last.id \in Ids(users)
    /\ Len(LogNow.created) = 2
    /\ \E k \in 1..2 : LogNow.created[k]["id"] \notin Ids(users)

(* ---- C19 ---- *)
\* the record the other tab creates
OtherTabRecord == [firstName |-> <<"B", "o">>, lastName |-> <<"L", "e", "e">>,
                   email |-> <<"b", "@", "x", ".", "c">>, id |-> otherTab.id]

\* C19: the other tab's mutation writes the whole stored log as the log it
\* read with its own record added, whatever this tab wrote in between (no
\* token is compared); a create of this tab reads the item and writes it
\* back whole with its record added.  Hence a state is reachable where both
\* tabs' creates succeeded and the stored log has the record of one of them
\* only.
C19_WholeBlobOverwrite ==
    [][/\ (otherTab.phase = "read" /\ otherTab'.phase = "done")
            => LET readLog == IF otherTab.log = <<>>
                              THEN [created |-> <<>>, updated |-> NoObject, deleted |-> <<>>]
                              ELSE otherTab.log[1]
               IN  LogNow' = [created |-> readLog.created \o <<OtherTabRecord>>,
                              updated |-> readLog.updated,
                              deleted |-> readLog.deleted]
       /\ (Completes /\ last'.kind = "create" /\ last'.ok)
            => /\ Len(storage') = 1
               /\ LogNow'.created = LogNow.created \o last'.ret
               /\ LogNow'.updated = LogNow.updated /\ LogNow'.deleted = LogNow.deleted]_vars

\* both tabs created a record, no delete succeeded, and the stored log holds
\* the other tab's record while this tab's record is gone from it
C19_Witness ==
    /\ hook = "json" /\ otherTab.phase = "done"
    /\ last.kind = "create" /\ last.ok /\ tombs = {} /\ pending = <<>>
    /\ last.id \in Ids(users)
    /\ LogNow.created = <<OtherTabRecord>>
    /\ last.id \notin Ids(LogNow.created)

C21_DeletedIdHasNoPatch ==
    [][/\ (Completes /\ hook = "json" /\ last'.kind = "delete" /\ last'.ok)
            => /\ last'.id \notin DOMAIN LogNow'.updated
               /\ \E k \in 1..Len(LogNow'.deleted) : LogNow'.deleted[k] = last'.id
       /\ (hook = "json" /\ ~raced')
            => \A id \in DOMAIN LogNow'.updated :
                  \A k \in 1..Len(LogNow'.deleted) : LogNow'.deleted[k] # id]_vars

\* the third operation of a history without overlap was a successful delete
\* of a seed record: its id is in 'deleted' and has no patch
C21_Witness ==
    /\ hook = "json" /\ ~raced /\ issued = 3 /\ done = 3
    /\ last.kind = "delete" /\ last.ok /\ last.id \in Ids(seed)
    /\ LogNow.deleted = <<last.id>> /\ last.id \notin DOMAIN LogNow.updated

(* ---- C22 ---- *)
\* C22: a submit of the user dialog makes exactly one hook call: update with
\* the id of the selected record when the dialog is in edit mode with a
\* selected record, create otherwise.  onUserSaved is called, and the dialog
\* closed by onSubmit, only after that call succeeded; after a failed call
\* onSubmit calls no refresh and leaves the dialog as it is.
SubmitCall == IF done' = done + 1 THEN last' ELSE pending'[Len(pending')]
C22_SubmitCallsOneThenRefreshesAndCloses ==
    [][/\ issued' \in {issued, issued + 1}
       /\ (mounted /\ issued' = issued + 1)
            => IF dialogMode = "edit" /\ selectedUser # NoObject
               THEN SubmitCall.kind = "update" /\ SubmitCall.id = selectedUser["id"]
               ELSE SubmitCall.kind = "create"
       /\ refreshCalls' # refreshCalls
            => /\ last.kind \in {"create", "update"} /\ last.ok
               /\ resumed' = done /\ resumed # done
               /\ refreshCalls' = refreshCalls + 1
               /\ ~isDialogOpen'
       /\ (resumed' # resumed /\ last.ok)
            => refreshCalls' = refreshCalls + 1 /\ ~isDialogOpen'
       /\ (resumed' # resumed /\ ~last.ok)
            => UNCHANGED <<refreshCalls, isDialogOpen>>
       /\ (Completes /\ ~last'.ok) => UNCHANGED <<refreshCalls, isDialogOpen>>]_vars

\* C22 witness: a first submit failed without a refresh, and a later submit
\* from the edit dialog updated the selected record, refreshed and closed it
C22_Witness ==
    /\ resumed = 3 /\ done = 3 /\ refreshCalls = 1 /\ ~isDialogOpen
    /\ last.kind = "update" /\ last.ok /\ dialogMode = "edit"
    /\ last.id = selectedUser["id"]

(* ---- C23 ---- *)
\* pages the table is probed with
ProbePages == 1..3

\* the records of the list that match t, by position, in list order
MatchesOf(list, t) == SelectSeq(list, LAMBDA r : ClaimedMatch(r, t))

\* C23: for the record list the view holds, every search text, every page
\* p >= 1 and every page size n, the cards shown are the matches at the
\* zero-based positions (p-1)*n up to but excluding p*n, in the order of the
\* matches: at most n cards, and none when the window lies past the end.
C23_PageIsWindowOfMatches ==
    \A t \in SearchTexts :
        LET F == MatchesOf(users, t)
        IN  \A n \in PageSizes, p \in ProbePages \cup {currentPage} :
              LET shown == UsersTable(t, FALSE, NoError, users, n, p).cards
                  positions == {z \in 0..(Len(F) - 1) : (p - 1) * n <= z /\ z < p * n}
              IN  /\ Len(shown) = Cardinality(positions)
                  /\ Len(shown) <= n
                  /\ \A k \in 1..Len(shown) : shown[k] = F[(p - 1) * n + k]
                  /\ ((p - 1) * n >= Len(F) => shown = <<>>)

\* C23 witness: nine records are held and the second page of five shows the
\* last four of them
C23_Witness ==
    /\ Rendered.shows = "cards" /\ filterText = <<>>
    /\ Len(users) = 9 /\ currentPage = 2 /\ itemsPerPage = 5
    /\ Rendered.cards = SubSeq(users, 6, 9)

(* ---- C24 ---- *)
\* C24 (as claimed): in the mock store, as long as no operations overlap, an
\* operation that completes over an in-memory list equal to the merge of the
\* seed with the stored log leaves the in-memory list equal to that merge,
\* and a refresh that succeeds there leaves the in-memory list as it was.
C24_MemoryIsMergeOfLog ==
    [][(Completes /\ hook = "json" /\ ~raced' /\ users = JsonListNow)
        => /\ users' = JsonListNow'
           /\ (last'.kind = "list" /\ last'.ok) => users' = users]_vars

(* ---- C25 ---- *)
\* C25 (as claimed): in every reachable state of the live hook, however its
\* operations overlap, no two entries of the in-memory list have the same id.
C25_NoDuplicateIds ==
    hook = "api" => \A k \in 1..Len(users) : CountId(users, users[k]["id"]) = 1

(* ---- C26 ---- *)
\* C26 (as claimed): in the live hook, when delete(id) succeeds the id is
\* absent from the in-memory list, and from then on every step that leaves
\* the server without the id leaves the in-memory list without it, also the
\* arrival of a whole-list response that was issued before the delete.
C26_DeletedStaysAbsentLive ==
    [][/\ (Completes /\ hook = "api" /\ last'.kind = "delete" /\ last'.ok)
            => last'.id \notin Ids(users')
       /\ (hook = "api" /\ last.kind = "delete" /\ last.ok
             /\ last.id \notin Ids(users) /\ last.id \notin Ids(server'))
            => last.id \notin Ids(users')]_vars

(* ---- C27 ---- *)
\* C27: for both hooks, given that timers fire and storage and HTTP calls
\* return, fail or time out, every operation that was started eventually
\* completes (the operations in flight are those started and not completed,
\* and a moment with none in flight always comes); and whenever no operation of the hook instance is in flight the
\* loading flag is false, whatever the outcomes and however the operations
\* overlapped, resetToDefaults with its nested list() included.
C27_CompletesAndLoadingClears ==
    /\ [](pending = <<>> => ~loading)
    /\ [](Len(pending) = issued - done)
    /\ (pending # <<>>) ~> (pending = <<>>)

\* C27 witness: operations overlapped, a resetToDefaults completed last with
\* a failure, nothing is in flight and the loading flag is false
C27_Witness ==
    /\ raced /\ issued = MaxOps /\ done = issued /\ pending = <<>>
    /\ last.kind = "reset" /\ ~last.ok /\ ~loading

(* ---- C28 ---- *)
\* C28 (as claimed): in every reachable state of the mock store, also after
\* overlapping deletes of one id, the 'deleted' bucket of the stored log
\* holds each id at most once.
C28_DeletedBucketHasNoDuplicates ==
    hook = "json"
        => \A j, k \in 1..Len(LogNow.deleted) :
              LogNow.deleted[j] = LogNow.deleted[k] => j = k

(* ---- C29 ---- *)
\* the last page that has a matching record, 1 when nothing matches
LastMatchPage ==
    IF Ceil(Matches, itemsPerPage) < 1 THEN 1 ELSE Ceil(Matches, itemsPerPage)

\* C29 (as claimed): whatever the operator typed, chose as page size and
\* clicked in the pager, and however the list changed, the current page is
\* within [1, max(1, ceil(matches / itemsPerPage))], so that a table which
\* shows cards and has matching records shows at least one card.
C29_PageStaysWithinMatches ==
    /\ currentPage \in 1..LastMatchPage
    /\ (Rendered.shows = "cards" /\ Matches > 0) => Rendered.cards # <<>>

====
